---- MODULE Spec2Model ----
(***************************************************************************)
(* Model of crates/biome_plugin_loader/src/analyzer_grit_plugin.rs:        *)
(* AnalyzerGritPlugin::evaluate, from_grit_range and the register_diagnostic*)
(* built-in, driven by a pattern engine that replays, for every file, the  *)
(* sequence of logs, built-in calls and failures the compiled query        *)
(* produces on that file.                                                  *)
(***************************************************************************)
EXTENDS Integers, Sequences, FiniteSets, TLC

VARIABLES grit_query, calls, loaded

vars == <<grit_query, calls, loaded>>

(* Number of evaluate invocations the host makes on the loaded plugin. *)
MaxCalls == 2

CallIds == 1..MaxCalls

Files == {"a.js", "b.js"}

(***************************************************************************)
(* Option values, ranges, bindings, resolved patterns                      *)
(***************************************************************************)
NoneStr == [some |-> FALSE, v |-> ""]

SomeStr(s) == [some |-> TRUE, v |-> s]

NoneRange == [some |-> FALSE, start |-> 0, end |-> 0]

SomeRange(s, e) == [some |-> TRUE, start |-> s, end |-> e]

(* Result<Cow<str>, _> of Binding::text and ResolvedSnippet::text *)
OkText(s) == [ok |-> TRUE, v |-> s]

ErrText == [ok |-> FALSE, v |-> ""]

(* A binding: an AST node (with its trimmed and its full range) or not. *)
NodeBinding(s, e, t) ==
    [is_node |-> TRUE, trimmed |-> SomeRange(s, e), full |-> SomeRange(s - 1, e + 1), text |-> t]

OtherBinding(t) ==
    [is_node |-> FALSE, trimmed |-> NoneRange, full |-> NoneRange, text |-> t]

StringConstant(s) == [type |-> "String", s |-> s, b |-> FALSE]

BooleanConstant(b) == [type |-> "Boolean", s |-> "", b |-> b]

(* GritResolvedPattern: the variant, its payload, and its bound references *)
ConstantValue(c) == [kind |-> "Constant", constant |-> c, snippets |-> <<>>, bindings |-> <<>>]

SnippetsValue(sn, bs) ==
    [kind |-> "Snippets", constant |-> StringConstant(""), snippets |-> sn, bindings |-> bs]

BindingValue(bs) ==
    [kind |-> "Binding", constant |-> StringConstant(""), snippets |-> <<>>, bindings |-> bs]

(* Option<GritPattern>: an argument slot of a built-in call *)
Absent ==
    [some |-> FALSE, resolvable |-> FALSE, value |-> BindingValue(<<>>), err |-> ""]

Present(v) == [some |-> TRUE, resolvable |-> TRUE, value |-> v, err |-> ""]

Unresolvable(e) ==
    [some |-> TRUE, resolvable |-> FALSE, value |-> BindingValue(<<>>), err |-> e]

(* Option<GritResolvedPattern> *)
NoValue == [some |-> FALSE, value |-> BindingValue(<<>>)]

SomeValue(v) == [some |-> TRUE, value |-> v]

(***************************************************************************)
(* AnalyzerGritPlugin::load: the built-in table                            *)
(***************************************************************************)
ParamNames == <<"span", "message", "fixer_description", "category", "applicability">>

Slots == 1..Len(ParamNames)

(***************************************************************************)
(* evaluate: pure parts                                                    *)
(***************************************************************************)
(* RuleDiagnostic::new: no verbosity, default (error) severity *)
RuleDiagnostic_new(category, span, message) ==
    [category |-> category, span |-> span, message |-> message, severity |-> "error"]

(* RuleDiagnostic::verbose *)
verbose(d) == [d EXCEPT !.severity = "verbose"]

(* self.grit_query.name.as_deref().unwrap_or("anonymous") *)
PluginName(query) == IF query.name.some THEN query.name.v ELSE "anonymous"

(* variant: the end offset is not carried over unchanged *)
from_grit_range_shifted(range) == [start |-> range.start_byte, end |-> range.end_byte + 1]

from_grit_range(range) == [start |-> range.start_byte, end |-> range.end_byte]

(* log.range.map(from_grit_range) *)
LogPosition(log) ==
    IF log.range.some
    THEN LET r == from_grit_range(log.range) IN SomeRange(r.start, r.end)
    ELSE NoneRange

(* the closure mapped over result.logs *)
LogDiagnostic(name, log) ==
    verbose(RuleDiagnostic_new("plugin", LogPosition(log), name \o " logged: " \o log.message))

(* GritPatternError's Display: the reason it was built with *)
error_to_string(error) == error.reason

(* the Err arm of evaluate's match *)
ErrorDiagnostics(name, error) ==
    << RuleDiagnostic_new("plugin", NoneRange, name \o " errored: " \o error_to_string(error)) >>

(* variant: one collection shared by every run *)
RECURSIVE AllDiagnostics(_)
AllDiagnostics(n) == IF n = 0 THEN <<>> ELSE AllDiagnostics(n - 1) \o calls[n].diagnostics

ResultDiagnostics_shared(c) == AllDiagnostics(MaxCalls)

(* result.diagnostics of the run of call c *)
ResultDiagnostics(c) == calls[c].diagnostics

(* variant: the registered diagnostics are chained before the logs *)
OkDiagnostics_registered_first(name, logs, diagnostics) ==
    diagnostics \o [i \in 1..Len(logs) |-> LogDiagnostic(name, logs[i])]

(* the Ok arm: logs mapped, chained with result.diagnostics, collected *)
OkDiagnostics(name, logs, diagnostics) ==
    [i \in 1..Len(logs) |-> LogDiagnostic(name, logs[i])] \o diagnostics

(***************************************************************************)
(* register_diagnostic: pure parts                                         *)
(***************************************************************************)
ArityMessage ==
    "register_diagnostic() takes 2 or 5 arguments: span and message, and optional fixer_description, category and applicability"

(* GritPatternError::new *)
GritPatternError_new(reason) == [reason |-> reason]

NoError == [reason |-> ""]

(* GritResolvedPattern::from_patterns(args, ..)?: resolves the present      *)
(* arguments in order; the first one that does not resolve is the error.    *)
from_patterns(args) ==
    LET bad == {i \in Slots : args[i].some /\ ~args[i].resolvable}
    IN  IF bad # {}
        THEN [ok |-> FALSE,
              error |-> GritPatternError_new(args[CHOOSE i \in bad : \A j \in bad : i <= j].err),
              values |-> [i \in Slots |-> NoValue]]
        ELSE [ok |-> TRUE, error |-> NoError,
              values |-> [i \in Slots |-> IF args[i].some THEN SomeValue(args[i].value)
                                                        ELSE NoValue]]

(* variant: category and applicability optional after a fixer description *)
MatchArgs_optional_tail(values) ==
    /\ values[1].some /\ values[2].some
    /\ values[4].some => values[3].some
    /\ values[5].some => values[4].some

(* variant: only the number of present arguments is looked at *)
MatchArgs_count(values) ==
    Cardinality({i \in Slots : values[i].some}) \in {2, 5}

(* match args.as_slice(): the two accepted slices *)
MatchArgs(values) ==
    \/ /\ values[1].some /\ values[2].some
       /\ ~values[3].some /\ ~values[4].some /\ ~values[5].some
    \/ /\ values[1].some /\ values[2].some
       /\ values[3].some /\ values[4].some /\ values[5].some

(* ResolvedPattern::get_last_binding *)
get_last_binding(value) ==
    IF value.bindings = <<>>
    THEN [some |-> FALSE, v |-> OtherBinding(ErrText)]
    ELSE [some |-> TRUE, v |-> value.bindings[Len(value.bindings)]]

(* variant: the first node among the bindings instead of the last binding *)
ResolveSpan_first_node(span_node) ==
    LET nodes == {i \in 1..Len(span_node.bindings) : span_node.bindings[i].is_node}
    IN  IF nodes = {}
        THEN NoneRange
        ELSE span_node.bindings[CHOOSE i \in nodes : \A j \in nodes : i <= j].trimmed

(* span_node.get_last_binding().and_then(GritBinding::as_node)              *)
(*          .map(|node| node.text_trimmed_range())                          *)
ResolveSpan(span_node) ==
    LET b == get_last_binding(span_node)
    IN  IF b.some /\ b.v.is_node THEN b.v.trimmed ELSE NoneRange

(* Constant's Display *)
constant_to_string(c) ==
    IF c.type = "Boolean" THEN (IF c.b THEN "true" ELSE "false") ELSE c.s

(* the closure of try_fold: one step over one snippet *)
FoldStep(text, snippet_text) ==
    IF text = ""
    THEN snippet_text
    ELSE IF snippet_text.ok THEN OkText(text \o snippet_text.v) ELSE snippet_text

(* snippets.iter().try_fold(Cow::Borrowed(""), ..): stops at the first Err *)
RECURSIVE TryFold(_, _, _)
TryFold(snippets, i, text) ==
    IF i > Len(snippets)
    THEN OkText(text)
    ELSE LET r == FoldStep(text, snippets[i])
         IN  IF r.ok THEN TryFold(snippets, i + 1, r.v) ELSE r

(* variant: an ordered chain in which a failed snippet list falls through   *)
(* to the last binding                                                      *)
ResolveMessage_chain(message) ==
    LET r == TryFold(message.snippets, 1, "")
        b == get_last_binding(message)
    IN  IF message.kind = "Constant" THEN SomeStr(constant_to_string(message.constant))
        ELSE IF message.kind = "Snippets" /\ r.ok THEN SomeStr(r.v)
        ELSE IF b.some /\ b.v.text.ok THEN SomeStr(b.v.text.v)
        ELSE NoneStr

(* let message = match message { .. } *)
ResolveMessage(message) ==
    CASE message.kind = "Constant" -> SomeStr(constant_to_string(message.constant))
      [] message.kind = "Snippets" ->
            LET r == TryFold(message.snippets, 1, "")
            IN  IF r.ok THEN SomeStr(r.v) ELSE NoneStr
      [] OTHER ->
            LET b == get_last_binding(message)
            IN  IF b.some /\ b.v.text.ok THEN SomeStr(b.v.text.v) ELSE NoneStr

(* message.as_deref().unwrap_or("(no message)") *)
MessageOrDefault(m) == IF m.some THEN m.v ELSE "(no message)"

NoDiagnostic == RuleDiagnostic_new("", NoneRange, "")

(* GritExecContext::add_diagnostic: appends to the collection of the run *)
add_diagnostic(diagnostics, d) == Append(diagnostics, d)

(* variant: the diagnostic is added before the arguments are validated *)
register_diagnostic_eager(args, diagnostics) ==
    LET resolved == from_patterns(args)
        d == RuleDiagnostic_new("plugin", NoneRange, "(no message)")
    IN  IF ~resolved.ok
        THEN [ok |-> FALSE, error |-> resolved.error, ret |-> NoValue,
              diagnostic |-> NoDiagnostic, diagnostics |-> diagnostics]
        ELSE IF ~MatchArgs(resolved.values)
        THEN [ok |-> FALSE, error |-> GritPatternError_new(ArityMessage), ret |-> NoValue,
              diagnostic |-> NoDiagnostic, diagnostics |-> add_diagnostic(diagnostics, d)]
        ELSE LET span_node == resolved.values[1].value
                 e == RuleDiagnostic_new("plugin", ResolveSpan(span_node),
                          MessageOrDefault(ResolveMessage(resolved.values[2].value)))
             IN  [ok |-> TRUE, error |-> NoError, ret |-> SomeValue(span_node),
                  diagnostic |-> e, diagnostics |-> add_diagnostic(diagnostics, e)]

(* The whole built-in: the outcome (Ok(span_node) or Err(error)), the       *)
(* diagnostic it built, and the context's collection when it returns.       *)
register_diagnostic(args, diagnostics) ==
    LET resolved == from_patterns(args)
    IN  IF ~resolved.ok
        THEN [ok |-> FALSE, error |-> resolved.error, ret |-> NoValue,
              diagnostic |-> NoDiagnostic, diagnostics |-> diagnostics]
        ELSE IF ~MatchArgs(resolved.values)
        THEN [ok |-> FALSE, error |-> GritPatternError_new(ArityMessage), ret |-> NoValue,
              diagnostic |-> NoDiagnostic, diagnostics |-> diagnostics]
        ELSE LET span_node == resolved.values[1].value
                 span      == ResolveSpan(span_node)
                 message   == MessageOrDefault(ResolveMessage(resolved.values[2].value))
                 d         == RuleDiagnostic_new("plugin", span, message)
             IN  [ok |-> TRUE, error |-> NoError, ret |-> SomeValue(span_node),
                  diagnostic |-> d, diagnostics |-> add_diagnostic(diagnostics, d)]

(***************************************************************************)
(* What the compiled query does on a file: a script of engine events       *)
(***************************************************************************)
NoLog == [range |-> [some |-> FALSE, start_byte |-> 0, end_byte |-> 0], message |-> ""]

NoArgs == [i \in Slots |-> Absent]

LogEvent(range, message) ==
    [type |-> "log", log |-> [range |-> range, message |-> message], args |-> NoArgs, error |-> NoError]

CallEvent(args) == [type |-> "call", log |-> NoLog, args |-> args, error |-> NoError]

ErrorEvent(reason) ==
    [type |-> "error", log |-> NoLog, args |-> NoArgs, error |-> GritPatternError_new(reason)]

GritRange(s, e) == [some |-> TRUE, start_byte |-> s, end_byte |-> e]

NoGritRange == [some |-> FALSE, start_byte |-> 0, end_byte |-> 0]

Log1 == LogEvent(GritRange(10, 15), "found it")

Log2 == LogEvent(NoGritRange, "done")

(* values the span argument can resolve to *)
SpanValues ==
    { BindingValue(<<>>),
      BindingValue(<< NodeBinding(10, 15, OkText("first")), OtherBinding(OkText("tok")) >>),
      BindingValue(<< NodeBinding(10, 15, OkText("first")), NodeBinding(3, 7, OkText("last")) >>),
      ConstantValue(StringConstant("nowhere")) }

(* values the message argument can resolve to *)
MessageValues ==
    { ConstantValue(StringConstant("bad pattern")),
      ConstantValue(BooleanConstant(TRUE)),
      SnippetsValue(<<>>, <<>>),
      SnippetsValue(<< OkText("ab"), OkText(""), OkText("cd") >>, <<>>),
      SnippetsValue(<< OkText("ab"), ErrText, OkText("cd") >>, << OtherBinding(OkText("bound")) >>),
      SnippetsValue(<< ErrText >>, <<>>),
      BindingValue(<< OtherBinding(OkText("first")), NodeBinding(3, 7, OkText("last")) >>),
      BindingValue(<< OtherBinding(OkText("first")), OtherBinding(ErrText) >>),
      BindingValue(<<>>) }

DefaultValue(i) ==
    CASE i = 1 -> BindingValue(<< NodeBinding(3, 7, OkText("foo")) >>)
      [] i = 2 -> ConstantValue(StringConstant("bad pattern"))
      [] OTHER -> ConstantValue(StringConstant(ParamNames[i]))

(* every present/absent/unresolvable combination of the five slots *)
ShapeArgs ==
    { [i \in Slots |-> CASE k[i] = "absent" -> Absent
                         [] k[i] = "bad"    -> Unresolvable("cannot resolve " \o ParamNames[i])
                         [] OTHER           -> Present(DefaultValue(i))] :
        k \in [Slots -> {"absent", "ok", "bad"}] }

(* span and message alone, with every value of each *)
ValueArgs ==
    { [i \in Slots |-> CASE i = 1 -> Present(s)
                         [] i = 2 -> Present(m)
                         [] OTHER -> Absent] :
        s \in SpanValues, m \in MessageValues }

FixedCall == CallEvent([i \in Slots |-> IF i <= 2 THEN Present(DefaultValue(i)) ELSE Absent])

ScriptA(args) == << Log1, FixedCall, CallEvent(args), Log2 >>

ScriptB == << FixedCall, ErrorEvent("syntax error at line 4") >>

(* what the query compiled from a source does on each file *)
Program(source) == [f \in Files |-> IF f = "a.js" THEN ScriptA(source) ELSE ScriptB]

Names == { NoneStr, SomeStr("no-foo") }

(* the plugins load can yield: every shape of the call in a named plugin,   *)
(* every span and message value in a named and in an anonymous one          *)
Plugins ==
    { [name |-> SomeStr("no-foo"), source |-> args] : args \in ShapeArgs }
    \cup { [name |-> n, source |-> args] : n \in Names, args \in ValueArgs }

(***************************************************************************)
(* State                                                                   *)
(***************************************************************************)
IdleCall ==
    [status |-> "idle", file |-> "", pc |-> 1, logs |-> <<>>, diagnostics |-> <<>>,
     error |-> NoError, outcome |-> "", result |-> <<>>, returned |-> <<>>, preceding |-> 0]

(* the plugin as load leaves it: the compiled query and its name *)
Init ==
    /\ grit_query \in Plugins
    /\ calls = [c \in CallIds |-> IdleCall]
    /\ loaded = grit_query

Script(c) == Program(grit_query.source)[calls[c].file]

Executing(c) == calls[c].status = "executing"

AtEvent(c, type) ==
    /\ Executing(c)
    /\ calls[c].pc <= Len(Script(c))
    /\ Script(c)[calls[c].pc].type = type

Event(c) == Script(c)[calls[c].pc]

NumDone == Cardinality({c \in CallIds : calls[c].status = "done"})

(* variant: the name is taken out of the query instead of borrowed *)
StartEvaluate_take(c, f) ==
    /\ calls[c].status = "idle"
    /\ \A b \in CallIds : b < c => calls[b].status # "idle"
    /\ calls' = [calls EXCEPT ![c] = [IdleCall EXCEPT !.status = "executing", !.file = f,
                                                      !.preceding = NumDone]]
    /\ grit_query' = [grit_query EXCEPT !.name = NoneStr]
    /\ UNCHANGED loaded

(* evaluate is entered: the target file is built and execute starts with a *)
(* fresh execution context; invocations are numbered in the order the host  *)
(* makes them                                                               *)
StartEvaluate(c, f) ==
    /\ calls[c].status = "idle"
    /\ \A b \in CallIds : b < c => calls[b].status # "idle"
    /\ calls' = [calls EXCEPT ![c] = [IdleCall EXCEPT !.status = "executing", !.file = f,
                                                      !.preceding = NumDone]]
    /\ UNCHANGED <<grit_query, loaded>>

(* the engine emits a log *)
EngineLog(c) ==
    /\ AtEvent(c, "log")
    /\ calls' = [calls EXCEPT ![c].logs = Append(@, Event(c).log), ![c].pc = @ + 1]
    /\ UNCHANGED <<grit_query, loaded>>

(* the engine dispatches a register_diagnostic call; an Err aborts the run *)
RegisterDiagnostic(c) ==
    /\ AtEvent(c, "call")
    /\ LET out == register_diagnostic(Event(c).args, calls[c].diagnostics)
           rec == [args |-> Event(c).args, ok |-> out.ok, error |-> out.error,
                   diagnostic |-> out.diagnostic]
       IN  calls' = [calls EXCEPT ![c].diagnostics = out.diagnostics,
                                  ![c].returned = Append(@, rec),
                                  ![c].pc = IF out.ok THEN @ + 1 ELSE @,
                                  ![c].status = IF out.ok THEN @ ELSE "failed",
                                  ![c].error = IF out.ok THEN @ ELSE out.error]
    /\ UNCHANGED <<grit_query, loaded>>

(* the engine itself fails *)
EngineError(c) ==
    /\ AtEvent(c, "error")
    /\ calls' = [calls EXCEPT ![c].status = "failed", ![c].error = Event(c).error]
    /\ UNCHANGED <<grit_query, loaded>>

(* execute returned Ok(result): the Ok arm *)
EvaluateOk(c) ==
    /\ Executing(c)
    /\ calls[c].pc > Len(Script(c))
    /\ calls' = [calls EXCEPT ![c].status = "done", ![c].outcome = "ok",
                              ![c].result = OkDiagnostics(PluginName(grit_query), calls[c].logs,
                                                          ResultDiagnostics(c))]
    /\ UNCHANGED <<grit_query, loaded>>

(* variant: what was registered before the failure is kept *)
EvaluateErr_keep(c) ==
    /\ calls[c].status = "failed"
    /\ calls' = [calls EXCEPT ![c].status = "done", ![c].outcome = "err",
                              ![c].result = calls[c].diagnostics \o
                                  ErrorDiagnostics(PluginName(grit_query), calls[c].error)]
    /\ UNCHANGED <<grit_query, loaded>>

(* execute returned Err(error): the Err arm *)
EvaluateErr(c) ==
    /\ calls[c].status = "failed"
    /\ calls' = [calls EXCEPT ![c].status = "done", ![c].outcome = "err",
                              ![c].result = ErrorDiagnostics(PluginName(grit_query), calls[c].error)]
    /\ UNCHANGED <<grit_query, loaded>>

Next ==
    \/ \E c \in CallIds, f \in Files : StartEvaluate(c, f)
    \/ \E c \in CallIds : EngineLog(c)
    \/ \E c \in CallIds : RegisterDiagnostic(c)
    \/ \E c \in CallIds : EngineError(c)
    \/ \E c \in CallIds : EvaluateOk(c)
    \/ \E c \in CallIds : EvaluateErr(c)

Spec == Init /\ [][Next]_vars

(***************************************************************************)
(* Vocabulary of the properties                                            *)
(***************************************************************************)
Done(c) == calls[c].status = "done"

Succeeded(c) == Done(c) /\ calls[c].outcome = "ok"

Errored(c) == Done(c) /\ calls[c].outcome = "err"

IsLog(e) == e.type = "log"

IsOk(r) == r.ok

(* the logs the engine emits on the file of call c, in engine order *)
EngineLogs(c) == LET ev == SelectSeq(Script(c), IsLog) IN [i \in 1..Len(ev) |-> ev[i].log]

(* the register_diagnostic calls of call c that returned Ok, in call order *)
OkReturned(c) == SelectSeq(calls[c].returned, IsOk)

(* every register_diagnostic call that has returned, in any run *)
AllReturned == UNION { {calls[c].returned[i] : i \in 1..Len(calls[c].returned)} : c \in CallIds }

Shape(args) == {i \in Slots : args[i].some}

ValidShape(args) == Shape(args) = {1, 2} \/ Shape(args) = Slots

AllResolvable(args) == \A i \in Shape(args) : args[i].resolvable

FirstUnresolvable(args) ==
    CHOOSE i \in Shape(args) :
        /\ ~args[i].resolvable
        /\ \A j \in Shape(args) : ~args[j].resolvable => i <= j

LastOf(seq) == seq[Len(seq)]

(* C1: on success evaluate returns N+M diagnostics, the N log-derived ones  *)
(* in the engine's log order followed by the M registered ones in           *)
(* registration order, each registered one exactly as it was registered.    *)
C1_LogsThenRegistered ==
    \A c \in CallIds : Succeeded(c) =>
        LET logs == EngineLogs(c)
            regs == OkReturned(c)
            r    == calls[c].result
        IN  /\ Len(r) = Len(logs) + Len(regs)
            /\ \A i \in 1..Len(logs) :
                  r[i].message = PluginName(loaded) \o " logged: " \o logs[i].message
            /\ \A j \in 1..Len(regs) : r[Len(logs) + j] = regs[j].diagnostic

(* two logs, then the same diagnostic registered twice, both kept *)
C1_Witness ==
    \E c \in CallIds :
        /\ Succeeded(c)
        /\ Len(EngineLogs(c)) = 2 /\ Len(OkReturned(c)) = 2
        /\ Len(calls[c].result) = 4
        /\ calls[c].result[3] = calls[c].result[4]
        /\ calls[c].result[1] # calls[c].result[2]

(* C2: when execute reports a pattern error, evaluate returns exactly one   *)
(* diagnostic (category "plugin", no position, severity error, message      *)
(* "<name> errored: <error text>") whatever was logged or registered before.*)
C2_SingleErrorDiagnostic ==
    \A c \in CallIds : Errored(c) =>
        calls[c].result =
            << [category |-> "plugin", span |-> NoneRange, severity |-> "error",
                message |-> PluginName(loaded) \o " errored: " \o calls[c].error.reason] >>

(* an aborted run that had already logged and registered something *)
C2_Witness ==
    \E c \in CallIds :
        /\ Errored(c)
        /\ Len(calls[c].logs) >= 1 /\ Len(calls[c].diagnostics) >= 1
        /\ Len(calls[c].result) = 1

(* C3 as stated: every call whose shape is not one of the two valid ones    *)
(* fails with the arity message, whether or not its arguments resolve.      *)
C3_AsStated ==
    \A r \in AllReturned :
        ~ValidShape(r.args) => ~r.ok /\ r.error.reason = ArityMessage

(* C3 amended: every call whose shape is not one of the two valid ones      *)
(* fails the evaluation with a pattern error; its text is the arity message *)
(* when every present argument resolves, and the error of the first present *)
(* argument that does not resolve otherwise.                                *)
C3_InvalidShapeFails ==
    \A c \in CallIds : \A k \in 1..Len(calls[c].returned) :
        LET r == calls[c].returned[k]
        IN  ~ValidShape(r.args) =>
                /\ ~r.ok
                /\ calls[c].status \in {"failed", "done"}
                /\ calls[c].error = r.error
                /\ AllResolvable(r.args) => r.error.reason = ArityMessage
                /\ ~AllResolvable(r.args) =>
                       r.error.reason = r.args[FirstUnresolvable(r.args)].err
                /\ Done(c) => /\ Len(calls[c].result) = 1
                              /\ calls[c].result[1].message =
                                    PluginName(loaded) \o " errored: " \o r.error.reason

(* three resolvable arguments: the evaluation ends with the arity error *)
C3_Witness ==
    \E c \in CallIds :
        /\ Errored(c)
        /\ calls[c].returned # <<>>
        /\ Shape(LastOf(calls[c].returned).args) = {1, 2, 3}
        /\ AllResolvable(LastOf(calls[c].returned).args)
        /\ calls[c].error.reason = ArityMessage

(* C4 as stated: 1, 3 or 4 present arguments always fail with the arity     *)
(* error; 2 or 5 present arguments succeed whenever they resolve, whichever *)
(* slots are the present ones.                                              *)
C4_AsStated ==
    \A r \in AllReturned :
        LET n == Cardinality(Shape(r.args))
        IN  /\ n \in {1, 3, 4} => ~r.ok /\ r.error.reason = ArityMessage
            /\ n \in {2, 5} /\ AllResolvable(r.args) => r.ok

(* C4 amended: 1, 3 or 4 present arguments always fail, with the arity      *)
(* error when they all resolve; 5 resolvable arguments succeed; 2           *)
(* resolvable arguments succeed exactly when they are span and message.     *)
C4_ArityByCount ==
    \A r \in AllReturned :
        LET n == Cardinality(Shape(r.args))
        IN  /\ n \in {1, 3, 4} => ~r.ok
            /\ n \in {1, 3, 4} /\ AllResolvable(r.args) => r.error.reason = ArityMessage
            /\ n = 5 /\ AllResolvable(r.args) => r.ok
            /\ n = 2 /\ AllResolvable(r.args) => (r.ok <=> Shape(r.args) = {1, 2})
            /\ n = 2 /\ AllResolvable(r.args) /\ ~r.ok => r.error.reason = ArityMessage

(* two resolvable arguments that are not span and message: arity error *)
C4_Witness ==
    \E r \in AllReturned :
        /\ Cardinality(Shape(r.args)) = 2
        /\ Shape(r.args) # {1, 2}
        /\ AllResolvable(r.args)
        /\ ~r.ok /\ r.error.reason = ArityMessage

RECURSIVE ConcatTexts(_)
ConcatTexts(sn) == IF sn = <<>> THEN "" ELSE Head(sn).v \o ConcatTexts(Tail(sn))

AllSnippetsResolve(sn) == \A i \in 1..Len(sn) : sn[i].ok

LastBindingText(m) ==
    IF m.bindings # <<>> /\ LastOf(m.bindings).text.ok
    THEN SomeStr(LastOf(m.bindings).text.v)
    ELSE NoneStr

(* the four tiers tried in order, the first that yields text wins *)
FirstTier(m) ==
    IF m.kind = "Constant" THEN constant_to_string(m.constant)
    ELSE IF m.kind = "Snippets" /\ AllSnippetsResolve(m.snippets) THEN ConcatTexts(m.snippets)
    ELSE IF LastBindingText(m).some THEN LastBindingText(m).v
    ELSE "(no message)"

ExpectedPosition(span) ==
    IF span.bindings # <<>> /\ LastOf(span.bindings).is_node
    THEN LastOf(span.bindings).trimmed
    ELSE NoneRange

(* C6: a call with a valid shape and resolvable arguments succeeds and      *)
(* appends a diagnostic whose position is the trimmed range of the span's   *)
(* last binding when that is a node, and absent otherwise.                  *)
C6_SpanPosition ==
    \A c \in CallIds :
        LET oks == OkReturned(c)
        IN  /\ \A k \in 1..Len(calls[c].returned) :
                  LET r == calls[c].returned[k]
                  IN  ValidShape(r.args) /\ AllResolvable(r.args) => r.ok
            /\ Len(calls[c].diagnostics) = Len(oks)
            /\ \A k \in 1..Len(oks) :
                  /\ calls[c].diagnostics[k].span = ExpectedPosition(oks[k].args[1].value)
                  /\ calls[c].diagnostics[k].span.some =>
                        calls[c].diagnostics[k].span # LastOf(oks[k].args[1].value.bindings).full

(* a span whose last binding is not a node although an earlier one is: the *)
(* diagnostic is appended without a position                                *)
C6_Witness ==
    \E c \in CallIds : \E k \in 1..Len(calls[c].diagnostics) :
        /\ k <= Len(OkReturned(c))
        /\ Len(OkReturned(c)[k].args[1].value.bindings) = 2
        /\ OkReturned(c)[k].args[1].value.bindings[1].is_node
        /\ ~OkReturned(c)[k].args[1].value.bindings[2].is_node
        /\ ~calls[c].diagnostics[k].span.some

(* C7: on success every log maps to a diagnostic with category "plugin",    *)
(* verbose severity, message "<name> logged: <log.message>" with <name> the *)
(* plugin's name or "anonymous", and the log's start_byte and end_byte as   *)
(* position, or no position when the log has no range.                      *)
C7_LogDiagnostics ==
    \A c \in CallIds : Succeeded(c) =>
        \A i \in 1..Len(EngineLogs(c)) :
            LET log == EngineLogs(c)[i]
                d   == calls[c].result[i]
            IN  /\ d.category = "plugin"
                /\ d.severity = "verbose"
                /\ d.message = (IF loaded.name.some THEN loaded.name.v ELSE "anonymous")
                                   \o " logged: " \o log.message
                /\ d.span.some = log.range.some
                /\ log.range.some =>
                      d.span.start = log.range.start_byte /\ d.span.end = log.range.end_byte

(* scenario A's log from an anonymous plugin, next to a log without range *)
C7_Witness ==
    \E c \in CallIds :
        /\ Succeeded(c)
        /\ ~loaded.name.some
        /\ calls[c].result[1] =
              [category |-> "plugin", span |-> SomeRange(10, 15), severity |-> "verbose",
               message |-> "anonymous logged: found it"]
        /\ \E i \in 1..Len(EngineLogs(c)) :
              ~EngineLogs(c)[i].range.some /\ ~calls[c].result[i].span.some

(* what one run of a script returns when nothing else runs *)
RECURSIVE OwnRun(_, _, _, _, _)
OwnRun(name, script, i, logs, diagnostics) ==
    IF i > Len(script)
    THEN OkDiagnostics(name, logs, diagnostics)
    ELSE LET e == script[i]
         IN  CASE e.type = "log" -> OwnRun(name, script, i + 1, Append(logs, e.log), diagnostics)
               [] e.type = "call" ->
                     LET out == register_diagnostic(e.args, diagnostics)
                     IN  IF out.ok
                         THEN OwnRun(name, script, i + 1, logs, out.diagnostics)
                         ELSE ErrorDiagnostics(name, out.error)
               [] OTHER -> ErrorDiagnostics(name, e.error)

C10_Step ==
    \A c \in CallIds :
        LET old == calls[c].diagnostics
            new == calls'[c].diagnostics
            ret == calls'[c].returned
        IN  /\ Len(new) = Len(SelectSeq(ret, IsOk))
            /\ \A k \in 1..Len(new) : new[k].category = "plugin"
            /\ IF Len(ret) = Len(calls[c].returned) + 1
               THEN IF LastOf(ret).ok
                    THEN /\ Len(new) = Len(old) + 1
                         /\ SubSeq(new, 1, Len(old)) = old
                         /\ LastOf(new) = LastOf(ret).diagnostic
                    ELSE new = old
               ELSE new = old

C10_CollectionAppendOnly == [][C10_Step]_vars

(* a run in which one call had appended and the next one failed *)
C10_Witness ==
    \E c \in CallIds :
        /\ Len(calls[c].returned) = 2
        /\ calls[c].returned[1].ok /\ ~calls[c].returned[2].ok
        /\ calls[c].returned[2].error.reason = ArityMessage
        /\ Len(calls[c].diagnostics) = 1
====
